---- MODULE Spec2Model ----
(***************************************************************************)
(* Client-side job synchronisation of SubtitleMaker's frontend: the query  *)
(* hooks of hooks/useTranscription (TanStack Query v5 observers and        *)
(* mutations), the pages that mount them, and the remote job service they  *)
(* observe.  One page is mounted at a time (App.tsx routes); a page's      *)
(* query hooks subscribe to cache keys, its mutation hooks issue requests. *)
(* The job-status, job-list, health and gpu queries are modelled; the      *)
(* QueryClient runs with the library's defaults (staleTime 0, refetch on   *)
(* mount and on window focus, invalidateQueries refetching observed        *)
(* queries with cancelRefetch).  A remote read answers with the service's  *)
(* state at the moment it resolves.                                        *)
(*                                                                         *)
(* The settings queries share no key with the job workflow and no          *)
(* invalidation reaches them, so the two are explored apart: Spec is the   *)
(* job workflow (index, transcribe and library routes, every mutation),    *)
(* ReadSpec is browsing the library and the settings without issuing a     *)
(* request.                                                                *)
(***************************************************************************)
EXTENDS Integers, Sequences, FiniteSets, Bags, TLC

(* ------------------------------ bounds -------------------------------- *)
\* outstanding mutation requests, all operations together
MaxPending == 1
\* remote reads of one key that were superseded and are still on the wire
MaxZombies == 1
\* retries of a failed read before the error is surfaced
RetryLimit == 1
\* outstanding mutation requests where requests of several page instances meet
MaxBusy == 2

(* ------------------------------ domain -------------------------------- *)
Jobs == {"j1"}

NonTerminal == {"pending", "uploading", "queued", "processing", "post_processing"}
Terminal == {"completed", "failed", "cancelled"}
JobStatus == NonTerminal \cup Terminal

\* position of a status in the lifecycle; the terminal statuses share the last
Rank(s) ==
  CASE s = "pending" -> 1
    [] s = "uploading" -> 2
    [] s = "queued" -> 3
    [] s = "processing" -> 4
    [] s = "post_processing" -> 5
    [] OTHER -> 6

\* the fields of a TranscriptionJob the client decides on
JobRec == [job_id : Jobs, status : JobStatus, video_output_path : BOOLEAN]

\* the remote record of a job: not yet created, deleted, or a job
Unborn == [status |-> "unborn", video_output_path |-> FALSE]
Deleted == [status |-> "deleted", video_output_path |-> FALSE]

Exists(sj) == sj.status \in JobStatus

(* ---------------------------- cache keys ------------------------------ *)
\* useJobs' default limit
DefaultLimit == 50
\* the interval useJobStatus polls at
PollInterval == 2000
\* the interval useGPUInfo polls at
GpuInterval == 5000

JobKey(j) == <<"job", j>>
ListKey == <<"jobs", "undefined", DefaultLimit>>
HealthKey == <<"health">>
GpuKey == <<"gpu">>
\* the keys of the two static lists, read once by the pages that show them
StylesKey == <<"styles">>
LanguagesKey == <<"languages">>
Keys == {JobKey(j) : j \in Jobs} \cup {ListKey, HealthKey, GpuKey}

\* a matcher that takes the filter for the whole key
partialMatchKey_Exact(filter, key) == filter = key

\* a matcher that lets every key through, as an invalidation without a filter
partialMatchKey_NoFilter(filter, key) == TRUE

\* queryKey matching of invalidateQueries: the filter is a prefix of the key
partialMatchKey(filter, key) ==
  /\ Len(filter) <= Len(key)
  /\ \A i \in 1..Len(filter) : filter[i] = key[i]

(* ------------------------------- pages -------------------------------- *)
IndexPage == <<"index">>
LibraryPage == <<"library">>
SettingsPage == <<"settings">>
TranscribePage(j) == <<"transcribe", j>>
\* the routes of the job workflow, and all routes
JobPages == {IndexPage, LibraryPage} \cup {TranscribePage(j) : j \in Jobs}
Pages == JobPages \cup {SettingsPage}

\* the queries a page's hooks observe
PageKeys(p) ==
  CASE p[1] = "transcribe" -> {JobKey(p[2])}
    [] p[1] = "library" -> {ListKey}
    [] p[1] = "settings" -> {HealthKey, GpuKey}
    [] OTHER -> {}

(* ---------------------------- query state ----------------------------- *)
\* a cached value: nothing, one job (status key) or the rows of a list
NoData == [loaded |-> FALSE, rows |-> {}]
Loaded(rows) == [loaded |-> TRUE, rows |-> rows]

NoQuery ==
  [data |-> NoData, isInvalidated |-> FALSE, error |-> "none",
   fetchStatus |-> "idle", failureCount |-> 0]

Ops == {"upload", "cancel", "delete", "download", "downloadVideo", "burnIn"}

VARIABLES
  server,     \* remote job records, by job id
  page,       \* the mounted page
  query,      \* the query cache, by key
  timer,      \* the refetch interval armed by the key's observer, 0 when none
  zombies,    \* superseded remote reads of the key still on the wire
  requests    \* outstanding mutation requests, a bag of Request

vars == <<server, page, query, timer, zombies, requests>>

\* a mutation request on the wire; owned while the hook instance that issued it
\* is still mounted (its isPending shows it)
Request == [op : Ops, job : Jobs \cup {"new"}, owned : BOOLEAN]

\* the records the remote service can hold for a job
ServerRec ==
  {Unborn, Deleted} \cup
  {r \in [status : JobStatus, video_output_path : BOOLEAN] :
     r.video_output_path => r.status = "completed"}

Init ==
  /\ server \in [Jobs -> ServerRec \ {Deleted}]
  /\ page = IndexPage
  /\ query = [k \in Keys |-> NoQuery]
  /\ timer = [k \in Keys |-> 0]
  /\ zombies = [k \in Keys |-> 0]
  /\ requests = EmptyBag

(* --------------------------- remote reads ----------------------------- *)
\* the TranscriptionJob the service returns for an existing job
Snapshot(j) ==
  [job_id |-> j, status |-> server[j].status,
   video_output_path |-> server[j].video_output_path]

\* GET /transcribe/{jobId}: the job, or a 404 when there is none
getJobStatus(j) ==
  IF Exists(server[j]) THEN Loaded({Snapshot(j)}) ELSE NoData

\* GET /jobs without a status filter: every existing job
listJobs == Loaded({Snapshot(j) : j \in {i \in Jobs : Exists(server[i])}})

\* GET /health and GET /health/gpu: the service's own status, no job in it
getHealthStatus == Loaded({})
getGPUInfo == Loaded({})

\* the queryFn of a key, answered from the service's state when it resolves
queryFn(k) ==
  CASE k[1] = "job" -> getJobStatus(k[2])
    [] k[1] = "jobs" -> listJobs
    [] k[1] = "health" -> getHealthStatus
    [] OTHER -> getGPUInfo

\* the job held by the value of a status key
JobOf(d) == CHOOSE r \in d.rows : TRUE

(* ------------------------ observers and timers ------------------------ *)
Subscribed(p, k) == k \in PageKeys(p)

\* an interval that ignores the status of the cached job
refetchInterval_AnyStatus(k, d) ==
  IF k[1] = "job" /\ d.loaded THEN PollInterval
  ELSE IF k = GpuKey THEN GpuInterval
  ELSE 0

\* an interval that waits for a first value before it polls the gpu key
refetchInterval_NeedsValue(k, d) ==
  IF /\ k[1] = "job"
     /\ d.loaded
     /\ JobOf(d).status \in {"processing", "uploading"}
  THEN PollInterval
  ELSE IF k = GpuKey /\ d.loaded THEN GpuInterval
  ELSE 0

\* the refetchInterval option of the key's hook: useJobStatus' function of the
\* cached job, useGPUInfo's constant, none for the others (0 stands for false)
refetchInterval(k, d) ==
  IF /\ k[1] = "job"
     /\ d.loaded
     /\ JobOf(d).status \in {"processing", "uploading"}
  THEN PollInterval
  ELSE IF k = GpuKey THEN GpuInterval
  ELSE 0

\* the retry option of the key's hook: false for useHealth and useGPUInfo, the
\* library's default for the others
retry(k) == IF k \in {HealthKey, GpuKey} THEN 0 ELSE RetryLimit

\* a timer armed for a key whether or not a page observes it
updateTimer_Unobserved(p, k, d) == refetchInterval(k, d)

\* the interval timer of the key's observer on page p, given the cached value
updateTimer(p, k, d) == IF Subscribed(p, k) THEN refetchInterval(k, d) ELSE 0

(* --------------------------- query fetches ---------------------------- *)
\* a fetch that is cancelled on request even while no value is cached
Superseded_NoValue(q, cancelRefetch) ==
  q.fetchStatus = "fetching" /\ cancelRefetch

\* Query.fetch: a fetch already running is joined, unless the caller asks to
\* cancel it and a value is cached, in which case a new remote read replaces it
Superseded(q, cancelRefetch) ==
  q.fetchStatus = "fetching" /\ q.data.loaded /\ cancelRefetch

fetch(q, cancelRefetch) ==
  IF q.fetchStatus = "fetching"
  THEN IF Superseded(q, cancelRefetch)
       THEN [q EXCEPT !.failureCount = 0]
       ELSE q
  ELSE [q EXCEPT !.fetchStatus = "fetching",
                 !.failureCount = 0,
                 !.error = IF q.data.loaded THEN q.error ELSE "none"]

\* remote reads of the key on the wire: the running fetch and the superseded
Calls(k) == (IF query[k].fetchStatus = "fetching" THEN 1 ELSE 0) + zombies[k]

(* ----------------------------- navigation ----------------------------- *)
\* unmounting a page drops its mutation observers: their requests stay on the
\* wire but no isPending shows them any more
Orphaned(b) ==
  LET reqs == BagToSet(b)
      U(r) == [r EXCEPT !.owned = FALSE]
  IN [u \in {U(r) : r \in reqs} |->
        (IF u \in reqs THEN b[u] ELSE 0) +
        (IF [u EXCEPT !.owned = TRUE] \in reqs THEN b[[u EXCEPT !.owned = TRUE]] ELSE 0)]

\* a route change that evicts the queries the new page does not observe
MountQueries_DropsUnobserved(Q, p) ==
  [k \in Keys |-> IF Subscribed(p, k) THEN fetch(Q[k], FALSE) ELSE NoQuery]

\* a mount that fetches only what was marked invalid
MountQueries_StaleOnly(Q, p) ==
  [k \in Keys |->
     IF Subscribed(p, k) /\ Q[k].isInvalidated THEN fetch(Q[k], FALSE) ELSE Q[k]]

\* the cache after page p mounted its query hooks: each fetches on mount
\* (staleTime 0), joining a fetch that is still running
MountQueries(Q, p) ==
  [k \in Keys |-> IF Subscribed(p, k) THEN fetch(Q[k], FALSE) ELSE Q[k]]

\* a route change that leaves the timers of the unmounted page running
MountTimers_KeepsOld(Q, p) ==
  [k \in Keys |->
     IF Subscribed(p, k) THEN refetchInterval(k, Q[k].data) ELSE timer[k]]

\* the timers after the route changed to p: the old page's are cleared
MountTimers(Q, p) == [k \in Keys |-> updateTimer(p, k, Q[k].data)]

Navigate(p) ==
  /\ p # page
  /\ p[1] = "transcribe" => server[p[2]] # Unborn
  /\ page' = p
  /\ query' = MountQueries(query, p)
  /\ timer' = MountTimers(query, p)
  /\ requests' = Orphaned(requests)
  /\ UNCHANGED <<server, zombies>>

(* ------------------------- fetch scheduling --------------------------- *)
\* the interval timer of a key fires
TimerFire(k) ==
  /\ timer[k] > 0
  /\ query' = [query EXCEPT ![k] = fetch(@, FALSE)]
  /\ UNCHANGED <<server, page, timer, zombies, requests>>

\* the window regains focus: every observed query refetches (refetchOnWindowFocus)
WindowFocus ==
  /\ query' = MountQueries(query, page)
  /\ UNCHANGED <<server, page, timer, zombies, requests>>

\* a list answer that also seeds the status key of each of its rows
FetchSuccess_SeedsRows(k) ==
  /\ query[k].fetchStatus = "fetching"
  /\ queryFn(k).loaded
  /\ query' = [c \in Keys |->
       IF c = k
       THEN [data |-> queryFn(k), isInvalidated |-> FALSE, error |-> "none",
             fetchStatus |-> "idle", failureCount |-> 0]
       ELSE IF k[1] = "jobs" /\ c[1] = "job" /\ \E r \in queryFn(k).rows : r.job_id = c[2]
       THEN [query[c] EXCEPT !.data = Loaded({r \in queryFn(k).rows : r.job_id = c[2]})]
       ELSE query[c]]
  /\ timer' = [timer EXCEPT ![k] = updateTimer(page, k, queryFn(k))]
  /\ UNCHANGED <<server, page, zombies, requests>>

\* the running fetch of a key resolves with the service's answer
FetchSuccess(k) ==
  /\ query[k].fetchStatus = "fetching"
  /\ queryFn(k).loaded
  /\ query' = [query EXCEPT ![k] =
       [data |-> queryFn(k), isInvalidated |-> FALSE, error |-> "none",
        fetchStatus |-> "idle", failureCount |-> 0]]
  /\ timer' = [timer EXCEPT ![k] = updateTimer(page, k, queryFn(k))]
  /\ UNCHANGED <<server, page, zombies, requests>>

\* the errors a remote read of the key can end with
FetchErrors(k) == {"transient"} \cup (IF queryFn(k).loaded THEN {} ELSE {"notfound"})

\* a failure that drops the cached value with the error
FetchFail_DropsValue(k, e) ==
  /\ query[k].fetchStatus = "fetching"
  /\ e \in FetchErrors(k)
  /\ IF query[k].failureCount < retry(k) /\ Subscribed(page, k)
     THEN query' = [query EXCEPT ![k].failureCount = @ + 1]
     ELSE query' = [query EXCEPT ![k].error = e,
                                 ![k].data = NoData,
                                 ![k].fetchStatus = "idle",
                                 ![k].failureCount = 0]
  /\ timer' = [timer EXCEPT ![k] = updateTimer(page, k, query[k].data)]
  /\ UNCHANGED <<server, page, zombies, requests>>

\* an attempt of the running fetch fails: retried while the retry budget lasts
\* and the key is observed, else the error is stored next to the kept value
FetchFail(k, e) ==
  /\ query[k].fetchStatus = "fetching"
  /\ e \in FetchErrors(k)
  /\ IF query[k].failureCount < retry(k) /\ Subscribed(page, k)
     THEN query' = [query EXCEPT ![k].failureCount = @ + 1]
     ELSE query' = [query EXCEPT ![k].error = e,
                                 ![k].fetchStatus = "idle",
                                 ![k].failureCount = 0]
  /\ timer' = [timer EXCEPT ![k] = updateTimer(page, k, query[k].data)]
  /\ UNCHANGED <<server, page, zombies, requests>>

\* a superseded remote read returns; its answer is dropped
ZombieReturn(k) ==
  /\ zombies[k] > 0
  /\ zombies' = [zombies EXCEPT ![k] = @ - 1]
  /\ UNCHANGED <<server, page, query, timer, requests>>

\* an unobserved idle query is garbage collected after gcTime
Gc(k) ==
  /\ ~Subscribed(page, k)
  /\ query[k].fetchStatus = "idle"
  /\ query[k] # NoQuery
  /\ query' = [query EXCEPT ![k] = NoQuery]
  /\ UNCHANGED <<server, page, timer, zombies, requests>>

(* --------------------------- remote service --------------------------- *)
\* the service moves a job forward in its lifecycle; the steps it takes and the
\* statuses it may skip are not the client's to know
ServerAdvance(j, s, v) ==
  /\ server[j].status \in NonTerminal
  /\ Rank(s) > Rank(server[j].status)
  /\ v => s = "completed"
  /\ server' = [server EXCEPT ![j] = [status |-> s, video_output_path |-> v]]
  /\ UNCHANGED <<page, query, timer, zombies, requests>>

(* ------------------------------- views -------------------------------- *)
\* useQuery's isLoading: the first fetch of a query without a value
isLoading(q) == q.fetchStatus = "fetching" /\ ~q.data.loaded /\ q.error = "none"

\* what TranscribePage renders for the state of its status query
TranscribeView(q) ==
  IF isLoading(q) THEN "spinner"
  ELSE IF q.error # "none" \/ ~q.data.loaded THEN "notfound"
  ELSE "job"

\* a page that does not look at isPending
isPending_Never(op) == FALSE

\* isPending of the mounted page's mutation hook for an operation
isPending(op) == \E r \in BagToSet(requests) : r.op = op /\ r.owned

\* the job shown by the mounted TranscribePage, if it shows one
ShownJob(j) ==
  /\ page = TranscribePage(j)
  /\ TranscribeView(query[JobKey(j)]) = "job"

ShownStatus(j) == JobOf(query[JobKey(j)].data).status
ShownVideo(j) == JobOf(query[JobKey(j)].data).video_output_path

\* the rows LibraryPage renders: data?.jobs || [] once it is not loading
LibraryRows ==
  IF page = LibraryPage /\ ~isLoading(query[ListKey])
  THEN {r.job_id : r \in query[ListKey].data.rows}
  ELSE {}

\* buttons that offer the artifacts of a job whatever its status
Offered_ArtifactAnyStatus(op, j) ==
  CASE op = "upload" -> page = IndexPage /\ j = "new"
    [] op = "delete" -> j \in LibraryRows
    [] op = "cancel" ->
         /\ j \in Jobs
         /\ ShownJob(j)
         /\ ShownStatus(j) \in {"processing", "queued", "uploading"}
    [] op = "download" -> j \in Jobs /\ ShownJob(j) /\ ~ShownVideo(j)
    [] op = "downloadVideo" -> j \in Jobs /\ ShownJob(j) /\ ShownVideo(j)
    [] op = "burnIn" -> j \in Jobs /\ ShownJob(j) /\ ~ShownVideo(j)

\* the buttons a page offers start the mutations
Offered(op, j) ==
  CASE op = "upload" -> page = IndexPage /\ j = "new"
    [] op = "delete" -> j \in LibraryRows
    [] op = "cancel" ->
         /\ j \in Jobs
         /\ ShownJob(j)
         /\ ShownStatus(j) \in {"processing", "queued", "uploading"}
    [] op = "download" ->
         j \in Jobs /\ ShownJob(j) /\ ShownStatus(j) = "completed" /\ ~ShownVideo(j)
    [] op = "downloadVideo" ->
         j \in Jobs /\ ShownJob(j) /\ ShownStatus(j) = "completed" /\ ShownVideo(j)
    [] op = "burnIn" ->
         j \in Jobs /\ ShownJob(j) /\ ShownStatus(j) = "completed" /\ ~ShownVideo(j)

\* the Start New Transcription button of the job page
OffersStartNew(j) == ShownJob(j) /\ ShownStatus(j) \in {"failed", "cancelled"}

\* everything the mounted page reads from its hooks: data, isLoading and error
\* of its queries, isPending of its mutations
Rendering ==
  [page |-> page,
   results |-> [k \in PageKeys(page) |->
                  [data |-> query[k].data,
                   isLoading |-> isLoading(query[k]),
                   error |-> query[k].error # "none"]],
   pending |-> {op \in Ops : isPending(op)}]

(* ----------------------------- mutations ------------------------------ *)
One(r) == SetToBag({r})

\* an invalidation that refetches every matching query, observed or not
invalidateQueries_All(Q, p, filter) ==
  [k \in Keys |->
     IF partialMatchKey(filter, k) /\ Q[k] # NoQuery
     THEN fetch([Q[k] EXCEPT !.isInvalidated = TRUE], TRUE)
     ELSE Q[k]]

\* queryClient.invalidateQueries({queryKey: filter}) while page p is mounted:
\* every cached query under the filter is marked invalid, the observed ones
\* refetch with cancelRefetch
\* an invalidation that does not look at its filter
invalidateQueries_Unfiltered(Q, p, filter) ==
  [k \in Keys |->
     IF Q[k] # NoQuery
     THEN IF Subscribed(p, k)
          THEN fetch([Q[k] EXCEPT !.isInvalidated = TRUE], TRUE)
          ELSE [Q[k] EXCEPT !.isInvalidated = TRUE]
     ELSE Q[k]]

invalidateQueries(Q, p, filter) ==
  [k \in Keys |->
     IF partialMatchKey(filter, k) /\ Q[k] # NoQuery
     THEN IF Subscribed(p, k)
          THEN fetch([Q[k] EXCEPT !.isInvalidated = TRUE], TRUE)
          ELSE [Q[k] EXCEPT !.isInvalidated = TRUE]
     ELSE Q[k]]

\* a mutate() that invalidates the lists before the service has answered
StartMutation_Optimistic(op, j) ==
  /\ BagCardinality(requests) < MaxPending
  /\ ~isPending(op)
  /\ Offered(op, j)
  /\ requests' = requests (+) One([op |-> op, job |-> j, owned |-> TRUE])
  /\ query' = invalidateQueries(query, page, <<"jobs">>)
  /\ UNCHANGED <<server, page, timer, zombies>>

\* a mutate() that joins a request of the same operation for the same job
\* instead of sending its own
StartMutationWithin_Deduped(op, j, n) ==
  /\ BagCardinality(requests) < n
  /\ ~isPending(op)
  /\ Offered(op, j)
  /\ LET sent == [op |-> op, job |-> j, owned |-> FALSE]
     IN requests' = IF BagIn(sent, requests)
                    THEN (requests (-) One(sent)) (+) One([sent EXCEPT !.owned = TRUE])
                    ELSE requests (+) One([sent EXCEPT !.owned = TRUE])
  /\ UNCHANGED <<server, page, query, timer, zombies>>

\* mutate(), explored while fewer than n requests are outstanding: the button
\* is enabled, the request goes on the wire and nothing else changes
StartMutationWithin(op, j, n) ==
  /\ BagCardinality(requests) < n
  /\ ~isPending(op)
  /\ Offered(op, j)
  /\ requests' = requests (+) One([op |-> op, job |-> j, owned |-> TRUE])
  /\ UNCHANGED <<server, page, query, timer, zombies>>

StartMutation(op, j) == StartMutationWithin(op, j, MaxPending)

\* the remote reads an invalidation supersedes stay on the wire
supersededBy(Q, Z, p, filter) ==
  [k \in Keys |->
     IF /\ partialMatchKey(filter, k)
        /\ Q[k] # NoQuery
        /\ Subscribed(p, k)
        /\ Superseded(Q[k], TRUE)
     THEN Z[k] + 1
     ELSE Z[k]]

\* whether the service accepts a request
Accepts(r) ==
  CASE r.op = "upload" -> \E j \in Jobs : server[j] = Unborn
    [] r.op = "cancel" -> server[r.job].status \in NonTerminal
    [] r.op = "delete" -> Exists(server[r.job])
    [] r.op = "download" -> server[r.job].status = "completed"
    [] r.op = "downloadVideo" ->
         server[r.job].status = "completed" /\ server[r.job].video_output_path
    [] r.op = "burnIn" -> server[r.job].status = "completed"

\* useUpload: the service created job j; onSuccess invalidates the lists, then
\* handleSubmit navigates to the job's page
UploadSuccess(r, j) ==
  /\ r \in BagToSet(requests) /\ r.op = "upload"
  /\ server[j] = Unborn
  /\ LET Q == invalidateQueries(query, page, <<"jobs">>)
         Z == supersededBy(query, zombies, page, <<"jobs">>)
     IN /\ \A k \in Keys : Z[k] <= MaxZombies
        /\ server' = [server EXCEPT ![j] = [status |-> "pending", video_output_path |-> FALSE]]
        /\ page' = TranscribePage(j)
        /\ query' = MountQueries(Q, TranscribePage(j))
        /\ timer' = MountTimers(Q, TranscribePage(j))
        /\ zombies' = Z
        /\ requests' = Orphaned(requests (-) One(r))

\* a cancel whose onSuccess writes the new status into the cache itself
CancelSuccess_WritesStatus(r) ==
  /\ r \in BagToSet(requests) /\ r.op = "cancel"
  /\ Accepts(r)
  /\ LET Q1 == invalidateQueries(query, page, <<"job", r.job>>)
         Z1 == supersededBy(query, zombies, page, <<"job", r.job>>)
         Q2 == invalidateQueries(Q1, page, <<"jobs">>)
         Z2 == supersededBy(Q1, Z1, page, <<"jobs">>)
     IN /\ \A k \in Keys : Z2[k] <= MaxZombies
        /\ server' = [server EXCEPT ![r.job] = [status |-> "cancelled", video_output_path |-> FALSE]]
        /\ query' = [Q2 EXCEPT ![JobKey(r.job)].data =
                       IF @.loaded
                       THEN Loaded({[job_id |-> r.job, status |-> "cancelled",
                                     video_output_path |-> FALSE]})
                       ELSE @]
        /\ zombies' = Z2
        /\ requests' = requests (-) One(r)
        /\ UNCHANGED <<page, timer>>

\* a cancel whose onSuccess invalidates the lists and not the job's status key
CancelSuccess_ListsOnly(r) ==
  /\ r \in BagToSet(requests) /\ r.op = "cancel"
  /\ Accepts(r)
  /\ LET Q == invalidateQueries(query, page, <<"jobs">>)
         Z == supersededBy(query, zombies, page, <<"jobs">>)
     IN /\ \A k \in Keys : Z[k] <= MaxZombies
        /\ server' = [server EXCEPT ![r.job] = [status |-> "cancelled", video_output_path |-> FALSE]]
        /\ query' = Q
        /\ zombies' = Z
        /\ requests' = requests (-) One(r)
        /\ UNCHANGED <<page, timer>>

\* useCancelJob: the service cancelled the job; onSuccess invalidates the job's
\* status key, then the lists
CancelSuccess(r) ==
  /\ r \in BagToSet(requests) /\ r.op = "cancel"
  /\ Accepts(r)
  /\ LET Q1 == invalidateQueries(query, page, <<"job", r.job>>)
         Z1 == supersededBy(query, zombies, page, <<"job", r.job>>)
         Q2 == invalidateQueries(Q1, page, <<"jobs">>)
         Z2 == supersededBy(Q1, Z1, page, <<"jobs">>)
     IN /\ \A k \in Keys : Z2[k] <= MaxZombies
        /\ server' = [server EXCEPT ![r.job] = [status |-> "cancelled", video_output_path |-> FALSE]]
        /\ query' = Q2
        /\ zombies' = Z2
        /\ requests' = requests (-) One(r)
        /\ UNCHANGED <<page, timer>>

\* useDeleteJob: the service removed the job; onSuccess invalidates the lists
DeleteSuccess(r) ==
  /\ r \in BagToSet(requests) /\ r.op = "delete"
  /\ Accepts(r)
  /\ LET Q == invalidateQueries(query, page, <<"jobs">>)
         Z == supersededBy(query, zombies, page, <<"jobs">>)
     IN /\ \A k \in Keys : Z[k] <= MaxZombies
        /\ server' = [server EXCEPT ![r.job] = Deleted]
        /\ query' = Q
        /\ zombies' = Z
        /\ requests' = requests (-) One(r)
        /\ UNCHANGED <<page, timer>>

\* useDownload: the subtitle file arrives and is saved; the hook declares no
\* onSuccess
DownloadSuccess(r) ==
  /\ r \in BagToSet(requests) /\ r.op = "download"
  /\ Accepts(r)
  /\ requests' = requests (-) One(r)
  /\ UNCHANGED <<server, page, query, timer, zombies>>

\* useDownloadVideo, useBurnIn: the video arrives and is saved; no cache key
\* depends on a derived artifact
VideoSuccess(r) ==
  /\ r \in BagToSet(requests) /\ r.op \in {"downloadVideo", "burnIn"}
  /\ Accepts(r)
  /\ requests' = requests (-) One(r)
  /\ UNCHANGED <<server, page, query, timer, zombies>>

\* a failure handled as if the hooks invalidated the lists in onSettled
MutationFail_Settled(r) ==
  /\ r \in BagToSet(requests)
  /\ requests' = requests (-) One(r)
  /\ query' = [k \in Keys |->
                 IF k[1] = "jobs" /\ query[k] # NoQuery
                 THEN [query[k] EXCEPT !.isInvalidated = TRUE]
                 ELSE query[k]]
  /\ UNCHANGED <<server, page, timer, zombies>>

\* a failure handled by an onError that refetches the job's status
MutationFail_Resyncs(r) ==
  /\ r \in BagToSet(requests)
  /\ requests' = requests (-) One(r)
  /\ query' = IF r.job \in Jobs
              THEN invalidateQueries(query, page, <<"job", r.job>>)
              ELSE query
  /\ UNCHANGED <<server, page, timer, zombies>>

\* a request is rejected or lost: no hook declares onError
MutationFail(r) ==
  /\ r \in BagToSet(requests)
  /\ requests' = requests (-) One(r)
  /\ UNCHANGED <<server, page, query, timer, zombies>>

(* --------------------------- specification ---------------------------- *)
Next ==
  \/ \E p \in JobPages : Navigate(p)
  \/ \E k \in Keys : TimerFire(k)
  \/ WindowFocus
  \/ \E k \in Keys : FetchSuccess(k)
  \/ \E k \in Keys, e \in {"transient", "notfound"} : FetchFail(k, e)
  \/ \E k \in Keys : ZombieReturn(k)
  \/ \E k \in Keys : Gc(k)
  \/ \E j \in Jobs, s \in JobStatus, v \in BOOLEAN : ServerAdvance(j, s, v)
  \/ \E op \in Ops, j \in Jobs \cup {"new"} : StartMutation(op, j)
  \/ \E r \in Request, j \in Jobs : UploadSuccess(r, j)
  \/ \E r \in Request : CancelSuccess(r)
  \/ \E r \in Request : DeleteSuccess(r)
  \/ \E r \in Request : DownloadSuccess(r)
  \/ \E r \in Request : VideoSuccess(r)
  \/ \E r \in Request : MutationFail(r)

Spec == Init /\ [][Next]_vars

TypeOK ==
  /\ server \in [Jobs -> ServerRec]
  /\ page \in Pages
  /\ \A k \in Keys :
       /\ query[k].data.rows \subseteq JobRec
       /\ query[k].isInvalidated \in BOOLEAN
       /\ query[k].fetchStatus \in {"idle", "fetching"}
       /\ query[k].failureCount \in 0..RetryLimit
       /\ query[k].error \in {"none", "transient", "notfound"}
       /\ timer[k] \in {0, PollInterval, GpuInterval}
       /\ zombies[k] \in 0..MaxZombies
  /\ BagCardinality(requests) <= MaxPending

(* ------------------- watching one job to its end ---------------------- *)
\* the route of a job is entered and never left
OpenJob(j) == page = IndexPage /\ Navigate(TranscribePage(j))

WatchNext ==
  \/ \E j \in Jobs : OpenJob(j)
  \/ \E k \in Keys : TimerFire(k)
  \/ WindowFocus
  \/ \E k \in Keys : FetchSuccess(k)
  \/ \E k \in Keys : ZombieReturn(k)
  \/ \E j \in Jobs, s \in JobStatus, v \in BOOLEAN : ServerAdvance(j, s, v)
  \/ \E op \in Ops, j \in Jobs \cup {"new"} : StartMutation(op, j)
  \/ \E r \in Request, j \in Jobs : UploadSuccess(r, j)
  \/ \E r \in Request : CancelSuccess(r)
  \/ \E r \in Request : DownloadSuccess(r)
  \/ \E r \in Request : VideoSuccess(r)
  \/ \E r \in Request : MutationFail(r)

\* an armed interval timer fires and a request on the wire is answered; the
\* user and the service owe nothing
WatchSpec ==
  /\ Init
  /\ [][WatchNext]_vars
  /\ \A k \in Keys : WF_vars(TimerFire(k)) /\ WF_vars(FetchSuccess(k))

(* -------------------- a job created and cancelled -------------------- *)
\* the session creates its job itself
CreateInit == Init /\ \A j \in Jobs : server[j] = Unborn

\* the job is uploaded and watched on its page; nobody else cancels it
CreateCancelNext ==
  \/ \E op \in Ops, j \in Jobs \cup {"new"} : StartMutation(op, j)
  \/ \E r \in Request, j \in Jobs : UploadSuccess(r, j)
  \/ \E k \in Keys : TimerFire(k)
  \/ WindowFocus
  \/ \E k \in Keys : FetchSuccess(k)
  \/ \E k \in Keys : ZombieReturn(k)
  \/ \E j \in Jobs, s \in JobStatus \ {"cancelled"}, v \in BOOLEAN : ServerAdvance(j, s, v)
  \/ \E r \in Request : CancelSuccess(r)
  \/ \E r \in Request : DownloadSuccess(r)
  \/ \E r \in Request : VideoSuccess(r)
  \/ \E r \in Request : MutationFail(r)

\* an armed interval timer fires and a running fetch is answered
CreateCancelSpec ==
  /\ CreateInit
  /\ [][CreateCancelNext]_vars
  /\ \A k \in Keys : WF_vars(TimerFire(k)) /\ WF_vars(FetchSuccess(k))

(* ------------------ requests of several page instances --------------- *)
\* the job workflow with answered fetches, explored with room for the request
\* of a page that was left and the request of the page mounted after it
BusyNext ==
  \/ \E p \in JobPages : Navigate(p)
  \/ \E k \in Keys : TimerFire(k)
  \/ \E k \in Keys : FetchSuccess(k)
  \/ \E k \in Keys : ZombieReturn(k)
  \/ \E j \in Jobs, s \in JobStatus, v \in BOOLEAN : ServerAdvance(j, s, v)
  \/ \E op \in Ops, j \in Jobs \cup {"new"} : StartMutationWithin(op, j, MaxBusy)
  \/ \E r \in Request, j \in Jobs : UploadSuccess(r, j)
  \/ \E r \in Request : CancelSuccess(r)
  \/ \E r \in Request : DeleteSuccess(r)
  \/ \E r \in Request : DownloadSuccess(r)
  \/ \E r \in Request : VideoSuccess(r)
  \/ \E r \in Request : MutationFail(r)

BusySpec == Init /\ [][BusyNext]_vars

(* ----------------- browsing the library and settings ----------------- *)
ReadPages == {IndexPage, LibraryPage, SettingsPage}

\* the user moves between the index, the library and the settings and issues
\* no request; the service runs on
ReadNext ==
  \/ \E p \in ReadPages : Navigate(p)
  \/ \E k \in Keys : TimerFire(k)
  \/ WindowFocus
  \/ \E k \in Keys : FetchSuccess(k)
  \/ \E k \in Keys, e \in {"transient", "notfound"} : FetchFail(k, e)
  \/ \E k \in Keys : Gc(k)
  \/ \E j \in Jobs, s \in JobStatus, v \in BOOLEAN : ServerAdvance(j, s, v)

ReadSpec == Init /\ [][ReadNext]_vars

(* ------------- mutations beside the health and GPU reads ------------- *)
\* the index, library and settings pages with answered fetches and every
\* mutation; the job page is entered by the navigation that ends an upload
CrossNext ==
  \/ \E p \in ReadPages : Navigate(p)
  \/ \E k \in Keys : TimerFire(k)
  \/ \E k \in Keys : FetchSuccess(k)
  \/ \E k \in Keys : ZombieReturn(k)
  \/ \E j \in Jobs, s \in JobStatus, v \in BOOLEAN : ServerAdvance(j, s, v)
  \/ \E op \in Ops, j \in Jobs \cup {"new"} : StartMutation(op, j)
  \/ \E r \in Request, j \in Jobs : UploadSuccess(r, j)
  \/ \E r \in Request : CancelSuccess(r)
  \/ \E r \in Request : DeleteSuccess(r)
  \/ \E r \in Request : DownloadSuccess(r)
  \/ \E r \in Request : VideoSuccess(r)
  \/ \E r \in Request : MutationFail(r)

CrossSpec == Init /\ [][CrossNext]_vars

(* --------------------- a service that steps back ---------------------- *)
\* the service reports a job at an earlier point of its lifecycle, or at
\* another status after a terminal one
ServerRegress(j, s) ==
  /\ Exists(server[j])
  /\ s # server[j].status
  /\ Rank(s) < Rank(server[j].status) \/ server[j].status \in Terminal
  /\ server' = [server EXCEPT ![j] = [status |-> s, video_output_path |-> FALSE]]
  /\ UNCHANGED <<page, query, timer, zombies, requests>>

\* one job watched while the service moves it forward and backward
RegressNext ==
  \/ \E j \in Jobs : OpenJob(j)
  \/ \E k \in Keys : TimerFire(k)
  \/ WindowFocus
  \/ \E k \in Keys : FetchSuccess(k)
  \/ \E j \in Jobs, s \in JobStatus, v \in BOOLEAN : ServerAdvance(j, s, v)
  \/ \E j \in Jobs, s \in JobStatus : ServerRegress(j, s)

RegressSpec == Init /\ [][RegressNext]_vars

(* ------------------------------ claims -------------------------------- *)
\* the statuses the job page treats as in progress
ActiveStatuses == {"uploading", "processing", "post_processing"}

CachedStatus(k) == JobOf(query[k].data).status

\* C1: whenever a fetch of an observed job-status key resolves with status
\* uploading, processing or post_processing, the next fetch of the key is
\* scheduled 2 seconds later.
C1_ActivePollScheduled ==
  [][\A j \in Jobs :
       (/\ FetchSuccess(JobKey(j))
        /\ Subscribed(page, JobKey(j))
        /\ JobOf(query'[JobKey(j)].data).status \in ActiveStatuses)
       => timer'[JobKey(j)] = PollInterval]_vars

\* C2: while the cached status of a job-status key is completed, failed or
\* cancelled no poll timer is armed for the key and no timer-driven fetch of it
\* can start.
C2_NoPollWhenTerminal ==
  \A j \in Jobs :
    (query[JobKey(j)].data.loaded /\ CachedStatus(JobKey(j)) \in Terminal)
    => (timer[JobKey(j)] = 0 /\ ~ENABLED TimerFire(JobKey(j)))

\* the mounted job page holds its job as completed, with no fetch running and
\* no timer armed
C2_Witness ==
  \E j \in Jobs :
    /\ page = TranscribePage(j)
    /\ query[JobKey(j)].data.loaded
    /\ CachedStatus(JobKey(j)) = "completed"
    /\ query[JobKey(j)].fetchStatus = "idle"
    /\ timer[JobKey(j)] = 0

\* C3: while the job's page stays mounted and fetches succeed, once the service
\* has driven the job to a terminal status the cached status of the job's key
\* eventually is that status, whatever non-terminal status was cached last.
C3_TerminalStatusReachesCache ==
  \A j \in Jobs :
    (page = TranscribePage(j) /\ server[j].status \in Terminal)
    ~> (/\ query[JobKey(j)].data.loaded
        /\ CachedStatus(JobKey(j)) = server[j].status)

InvalidationStep ==
  \E r \in Request :
    \/ CancelSuccess(r)
    \/ DeleteSuccess(r)
    \/ \E j \in Jobs : UploadSuccess(r, j)

JobAndListKeys(j) == {k \in Keys : k = JobKey(j) \/ k[1] = "jobs"}

\* C5: a successful cancelJob(j) marks the cached entry of j's status key and
\* of every list key invalid, and every such key that is observed has a fetch
\* running right after it.
C5_CancelInvalidates ==
  [][\A r \in Request :
       CancelSuccess(r) =>
         \A k \in JobAndListKeys(r.job) :
           query[k] # NoQuery =>
             /\ query'[k].isInvalidated
             /\ Subscribed(page, k) => query'[k].fetchStatus = "fetching"]_vars

\* a cancel is on the wire for a job whose status key and list are both cached
C5_Witness ==
  \E r \in BagToSet(requests) :
    /\ r.op = "cancel"
    /\ Accepts(r)
    /\ page = TranscribePage(r.job)
    /\ query[JobKey(r.job)].data.loaded
    /\ query[ListKey].data.loaded

\* C6: a successful deleteJob(j) invalidates every list key and leaves no value
\* cached under j's status key.
C6_DeleteEvictsJobKey ==
  [][\A r \in Request :
       DeleteSuccess(r) =>
         /\ \A k \in Keys : (k[1] = "jobs" /\ query[k] # NoQuery) => query'[k].isInvalidated
         /\ ~query'[JobKey(r.job)].data.loaded]_vars

\* C7: a cache entry is marked invalid, or a running fetch superseded, only in
\* the step that handles a mutation's success acknowledgement; issuing a
\* request changes no cache entry and arms no timer.
C7_InvalidateOnlyOnSuccess ==
  [][/\ (\E k \in Keys :
           \/ query'[k].isInvalidated /\ ~query[k].isInvalidated
           \/ zombies'[k] > zombies[k])
        => InvalidationStep
     /\ BagCardinality(requests') > BagCardinality(requests)
        => UNCHANGED <<query, timer, zombies>>]_vars

\* a cancel is on the wire while the job's cached entry is valid and idle
C7_Witness ==
  \E r \in BagToSet(requests) :
    /\ r.op = "cancel"
    /\ query[JobKey(r.job)].data.loaded
    /\ ~query[JobKey(r.job)].isInvalidated
    /\ query[JobKey(r.job)].fetchStatus = "idle"

\* C8: a step in which a request leaves the wire and the service's records are
\* as before (the request failed, or it only fetched an artifact) changes no
\* cache entry, arms no timer and starts no remote read.
C8_FailureLeavesCache ==
  [][\A r \in Request :
       (/\ BagIn(r, requests)
        /\ requests' = requests (-) One(r)
        /\ server' = server)
       => UNCHANGED <<query, timer, zombies, page>>]_vars

\* a cancel that the service will reject is on the wire: the job ended while
\* the cache still holds it as running
C8_Witness ==
  \E r \in BagToSet(requests) :
    /\ r.op = "cancel"
    /\ ~Accepts(r)
    /\ query[JobKey(r.job)].data.loaded
    /\ CachedStatus(JobKey(r.job)) \in NonTerminal

\* C9: when the running fetch of a key ends, either it failed, the value cached
\* before is still cached and the error is stored, or it succeeded, the value
\* is the service's answer and the error is cleared; a failed attempt that is
\* retried keeps the value too.
C9_FailureKeepsValue ==
  [][\A k \in Keys :
       query[k].fetchStatus = "fetching" =>
         \/ /\ query'[k].fetchStatus = "idle"
            /\ query'[k].error # "none"
            /\ query'[k].data = query[k].data
         \/ /\ query'[k].fetchStatus = "idle"
            /\ query'[k].error = "none"
            /\ queryFn(k).loaded
            /\ query'[k].data = queryFn(k)
         \/ /\ query'[k].fetchStatus = "fetching"
            /\ query'[k].data = query[k].data]_vars

\* a refetch failed and the value fetched before is still cached
C9_Witness ==
  \E k \in Keys :
    /\ query[k].data.loaded
    /\ query[k].error # "none"
    /\ query[k].fetchStatus = "idle"

\* C10: while a job is cached under the status key of the mounted job page, the
\* page shows the job even if the last refetch failed.
C10_StaleJobShown ==
  \A j \in Jobs :
    (/\ page = TranscribePage(j)
     /\ query[JobKey(j)].data.loaded
     /\ query[JobKey(j)].error # "none")
    => TranscribeView(query[JobKey(j)]) = "job"

\* C11: a key that no mounted page observes has no poll timer armed, and no
\* timer-driven fetch of it can start.
C11_NoTimerWithoutSubscriber ==
  \A k \in Keys :
    ~Subscribed(page, k) => (timer[k] = 0 /\ ~ENABLED TimerFire(k))

\* the job page was left while its job is cached as polled: the status is
\* processing or uploading on an unobserved key
C11_Witness ==
  \E j \in Jobs :
    /\ ~Subscribed(page, JobKey(j))
    /\ query[JobKey(j)].data.loaded
    /\ CachedStatus(JobKey(j)) \in {"processing", "uploading"}

\* C12: a step in which a key loses or regains its observer leaves the value
\* cached under it as it was, and a page that mounts on a cached value reads it
\* at once instead of loading.
C12_UnsubscribeKeepsValue ==
  [][\A k \in Keys :
       Subscribed(page, k) # Subscribed(page', k) =>
         /\ query'[k].data = query[k].data
         /\ query[k].data.loaded => ~isLoading(query'[k])]_vars

\* the library was left and its list is still cached
C12_Witness ==
  /\ page # LibraryPage
  /\ query[ListKey].data.loaded
  /\ query[ListKey].data.rows # {}

\* C13: a fetch that is running when its key loses the observer keeps running;
\* when a fetch of an unobserved key resolves its answer is cached and no poll
\* timer is armed, whatever the status.
C13_OrphanFetchApplied ==
  [][\A k \in Keys :
       /\ (/\ Subscribed(page, k)
           /\ ~Subscribed(page', k)
           /\ query[k].fetchStatus = "fetching")
          => query'[k].fetchStatus = "fetching"
       /\ (FetchSuccess(k) /\ ~Subscribed(page, k))
          => (query'[k].data = queryFn(k) /\ timer'[k] = 0)]_vars

\* the job page was left with the status fetch running, and the service holds
\* the job at a status that is polled
C13_Witness ==
  \E j \in Jobs :
    /\ ~Subscribed(page, JobKey(j))
    /\ query[JobKey(j)].fetchStatus = "fetching"
    /\ server[j].status \in {"processing", "uploading"}

\* a status that is earlier in the lifecycle than the one before it, or differs
\* from a terminal one
Regresses(old, new) ==
  \/ Rank(new) < Rank(old)
  \/ old \in Terminal /\ new # old

\* what a query result can carry to the page besides the value
Flagged(q) == q.error # "none" \/ q.isInvalidated

\* C14: when a fetch of a job-status key answers with a status that regresses
\* from the cached one, the answer replaces the cached value and the result is
\* flagged.
C14_RegressionFlagged ==
  [][\A j \in Jobs :
       (/\ FetchSuccess(JobKey(j))
        /\ query[JobKey(j)].data.loaded
        /\ Regresses(CachedStatus(JobKey(j)), server[j].status))
       => (/\ query'[JobKey(j)].data = queryFn(JobKey(j))
           /\ Flagged(query'[JobKey(j)]))]_vars

\* C15: a value is written under a key only by a fetch of that key resolving;
\* a step that puts a request on the wire or takes one off changes no cached
\* value.
C15_OnlyFetchWritesStatus ==
  [][/\ \A k \in Keys :
          (query'[k].data.loaded /\ query'[k].data # query[k].data)
          => FetchSuccess(k)
     /\ requests' # requests
        => \A k \in Keys : query'[k].data = query[k].data]_vars

\* the service has cancelled the job on request and the cache, already marked
\* invalid, still holds the status from before
C15_Witness ==
  \E j \in Jobs :
    /\ server[j].status = "cancelled"
    /\ query[JobKey(j)].isInvalidated
    /\ query[JobKey(j)].data.loaded
    /\ CachedStatus(JobKey(j)) \in NonTerminal

\* C16: a cancel request for a job the service holds at a terminal status
\* leaves the wire without any effect: the service's records, every cache
\* entry, the timers and the remote reads on the wire are as before.
C16_LateCancelRejected ==
  [][\A r \in Request :
       (/\ BagIn(r, requests)
        /\ r.op = "cancel"
        /\ server[r.job].status \in Terminal
        /\ requests' = requests (-) One(r))
       => UNCHANGED <<server, query, timer, zombies, page>>]_vars

\* the job completed while the page, still showing it as processing, has a
\* cancel on the wire
C16_Witness ==
  \E r \in BagToSet(requests) :
    /\ r.op = "cancel"
    /\ r.owned
    /\ page = TranscribePage(r.job)
    /\ server[r.job].status = "completed"
    /\ query[JobKey(r.job)].data.loaded
    /\ CachedStatus(JobKey(r.job)) = "processing"

\* C17: in a session that creates a job and cancels it, once the service has
\* cancelled the job the status cached for it eventually is cancelled,
\* whatever status was cached when the cancel was issued; and no download,
\* video download or burn-in of a cancelled job succeeds.
C17_CancelledReachesCache ==
  /\ \A j \in Jobs :
       (page = TranscribePage(j) /\ server[j].status = "cancelled")
       ~> (/\ query[JobKey(j)].data.loaded
           /\ CachedStatus(JobKey(j)) = "cancelled")
  /\ [][\A r \in Request :
          (DownloadSuccess(r) \/ VideoSuccess(r))
          => server[r.job].status # "cancelled"]_vars

\* the job was cancelled before it was seen processing: the service holds it
\* cancelled, the page's entry is invalid and refetching with queued or
\* uploading still cached
C17_Witness ==
  \E j \in Jobs :
    /\ page = TranscribePage(j)
    /\ server[j].status = "cancelled"
    /\ query[JobKey(j)].isInvalidated
    /\ query[JobKey(j)].fetchStatus = "fetching"
    /\ query[JobKey(j)].data.loaded
    /\ CachedStatus(JobKey(j)) \in {"queued", "uploading"}

\* C18: a step in which a key without a cached value gains an observer leaves
\* a fetch of the key running, and issues a remote read when none was running.
C18_SubscribeFetchesMissing ==
  [][\A k \in Keys :
       (/\ ~Subscribed(page, k)
        /\ Subscribed(page', k)
        /\ ~query[k].data.loaded)
       => (/\ query'[k].fetchStatus = "fetching"
           /\ query[k].fetchStatus = "idle" => Calls(k)' = Calls(k) + 1)]_vars

\* the job page is mounted and loading its job for the first time
C18_Witness ==
  \E j \in Jobs :
    /\ page = TranscribePage(j)
    /\ isLoading(query[JobKey(j)])
    /\ Calls(JobKey(j)) = 1

\* the keys the onSuccess of a request's hook invalidates
Invalidates(r, k) ==
  \/ k[1] = "jobs"
  \/ r.op = "cancel" /\ k = JobKey(r.job)

\* C19: the success of an upload, a cancel or a delete marks every cached entry
\* under the hook's keys invalid; an observed one has a fetch running right
\* after, an unobserved one keeps its fetch status.  No fetch of an unobserved
\* key starts, and an invalid entry that gains an observer is fetched.
C19_InvalidateRefetchesObserved ==
  [][/\ \A r \in BagToSet(requests), k \in Keys :
          (/\ Invalidates(r, k)
           /\ query[k] # NoQuery
           /\ CancelSuccess(r) \/ DeleteSuccess(r) \/ \E j \in Jobs : UploadSuccess(r, j))
          => /\ query'[k].isInvalidated
             /\ IF Subscribed(page, k)
                THEN query'[k].fetchStatus = "fetching"
                ELSE /\ query'[k].fetchStatus = query[k].fetchStatus
                     /\ Calls(k)' = Calls(k)
     /\ \A k \in Keys :
          /\ (~Subscribed(page, k) /\ ~Subscribed(page', k))
             => Calls(k)' <= Calls(k)
          /\ (/\ query[k].isInvalidated
              /\ ~Subscribed(page, k)
              /\ Subscribed(page', k))
             => query'[k].fetchStatus = "fetching"]_vars

\* the list was invalidated while no page observes it: marked, idle, not
\* refetched
C19_Witness ==
  /\ ~Subscribed(page, ListKey)
  /\ query[ListKey].isInvalidated
  /\ query[ListKey].fetchStatus = "idle"
  /\ query[ListKey].data.loaded

\* C20: the first failed attempt of a fetch of an observed key is retried,
\* whatever the key; when a fetch ends in failure the error is stored and the
\* value cached before is still cached.
C20_TransientRetried ==
  [][\A k \in Keys :
       FetchFail(k, "transient") =>
         /\ (Subscribed(page, k) /\ query[k].failureCount = 0)
            => query'[k].fetchStatus = "fetching"
         /\ query'[k].fetchStatus = "idle"
            => (query'[k].error = "transient" /\ query'[k].data = query[k].data)]_vars

\* C21: a fetch of an observed job-status key that fails with not-found ends
\* at that failure: the error is stored, no further attempt runs, and the job
\* page shows the job as absent.
C21_NotFoundNotRetried ==
  [][\A j \in Jobs :
       (FetchFail(JobKey(j), "notfound") /\ Subscribed(page, JobKey(j)))
       => (/\ query'[JobKey(j)].fetchStatus = "idle"
           /\ query'[JobKey(j)].error = "notfound"
           /\ TranscribeView(query'[JobKey(j)]) = "notfound")]_vars

\* the operations the pages start with mutate(): no handler of the page
\* receives their rejection
MutateOps == Ops \ {"upload"}

\* C23: when a request of the mounted page fails, the page renders something
\* else than it would with the request simply not pending: the failure can be
\* told from what the page shows.
C23_MutationErrorObservable ==
  [][\A r \in BagToSet(requests) :
       (r.owned /\ r.op \in MutateOps /\ MutationFail(r))
       => Rendering' # [Rendering EXCEPT !.pending = @ \ {r.op}]]_vars

\* C24: no fetch of the list key starts while no page observes it, no timer is
\* ever armed for it, and a list answer leaves every job-status key as it was:
\* its cached entry, its timer and its remote reads.
C24_ListIsUnitOfRefresh ==
  [][/\ (~Subscribed(page, ListKey) /\ ~Subscribed(page', ListKey))
        => Calls(ListKey)' <= Calls(ListKey)
     /\ timer'[ListKey] = 0
     /\ FetchSuccess(ListKey)
        => \A j \in Jobs :
             /\ query'[JobKey(j)] = query[JobKey(j)]
             /\ timer'[JobKey(j)] = timer[JobKey(j)]
             /\ Calls(JobKey(j))' = Calls(JobKey(j))]_vars

\* the library shows a running job whose status key was never fetched
C24_Witness ==
  \E j \in Jobs :
    /\ page = LibraryPage
    /\ \E r \in query[ListKey].data.rows :
         r.job_id = j /\ r.status \in {"processing", "uploading"}
    /\ query[JobKey(j)] = NoQuery

ArtifactOps == {"download", "downloadVideo", "burnIn"}

\* C27: a step that puts a download, a video download or a burn-in of a job on
\* the wire is taken on that job's page while the page shows the job with
\* completed cached.
C27_ArtifactOnlyWhenCompleted ==
  [][\A r \in Request :
       (/\ r.owned
        /\ r.op \in ArtifactOps
        /\ CopiesIn(r, requests') > CopiesIn(r, requests))
       => (/\ page = TranscribePage(r.job)
           /\ query[JobKey(r.job)].data.loaded
           /\ CachedStatus(JobKey(r.job)) = "completed")]_vars

\* a burn-in is on the wire for the job the page shows as completed
C27_Witness ==
  \E r \in BagToSet(requests) :
    /\ r.op = "burnIn"
    /\ r.owned
    /\ page = TranscribePage(r.job)

\* a cache that holds an entry under every key
AllCached == [k \in Keys |-> [NoQuery EXCEPT !.data = Loaded({})]]

C29_ActionsFollowStatus ==
  \A j \in Jobs :
    (page = TranscribePage(j) /\ query[JobKey(j)].data.loaded) =>
      LET st == CachedStatus(JobKey(j))
          video == JobOf(query[JobKey(j)].data).video_output_path
      IN /\ Offered("cancel", j) <=> st \in {"processing", "queued", "uploading"}
         /\ Offered("download", j) <=> (st = "completed" /\ ~video)
         /\ Offered("downloadVideo", j) <=> (st = "completed" /\ video)
         /\ OffersStartNew(j) <=> st \in {"failed", "cancelled"}

\* the requests of an operation for a job that are on the wire, whoever sent them
Flying(b, op, j) ==
  CopiesIn([op |-> op, job |-> j, owned |-> TRUE], b)
  + CopiesIn([op |-> op, job |-> j, owned |-> FALSE], b)

\* C22: a burn-in started for a job puts one more burn-in request for that
\* job on the wire, also while an earlier burn-in for the job is still there:
\* it never joins the earlier request.
C22_BurnInNotDeduplicated ==
  [][\A j \in Jobs :
       LET mine == [op |-> "burnIn", job |-> j, owned |-> TRUE]
       IN CopiesIn(mine, requests') > CopiesIn(mine, requests)
          => Flying(requests', "burnIn", j) = Flying(requests, "burnIn", j) + 1]_vars

\* two burn-in requests for the same job are on the wire together
C22_Witness == \E j \in Jobs : Flying(requests, "burnIn", j) = 2

\* the requests of an operation the mounted page instance waits for
Waiting(op) == {r \in BagToSet(requests) : r.op = op /\ r.owned}

\* C30: the mounted page instance waits for at most one cancel and at most
\* one delete, and while it waits for one it can start no other for any job.
C30_OneCancelOneDeletePerPage ==
  \A op \in {"cancel", "delete"} :
    /\ Cardinality(Waiting(op)) <= 1
    /\ \A r \in Waiting(op) :
         /\ requests[r] = 1
         /\ \A j \in Jobs : ~ENABLED StartMutationWithin(op, j, MaxBusy + 1)

\* the page waits for its own cancel while the cancel of the page instance
\* before it is still on the wire
C30_Witness ==
  \E j \in Jobs :
    /\ BagIn([op |-> "cancel", job |-> j, owned |-> TRUE], requests)
    /\ BagIn([op |-> "cancel", job |-> j, owned |-> FALSE], requests)

\* the keys no job mutation is to touch
StaticKeys == {StylesKey, LanguagesKey, HealthKey, GpuKey}
\* the filters the mutation hooks invalidate with
MutationFilters == {<<"jobs">>} \cup {<<"job", j>> : j \in Jobs}

\* C25: a step that starts, completes or fails a job mutation leaves the
\* cache entries of the health and GPU keys as they were and supersedes no
\* fetch of theirs; no filter a mutation invalidates with matches the
\* styles, languages, health or GPU key.
C25_NoCrossInvalidation ==
  [][BagCardinality(requests') # BagCardinality(requests) =>
       /\ \A k \in {HealthKey, GpuKey} :
            query'[k] = query[k] /\ zombies'[k] = zombies[k]
       /\ \A f \in MutationFilters, k \in StaticKeys : ~partialMatchKey(f, k)]_vars

\* a mutation sent from a page left since has marked the list while the
\* settings page holds both of its answers, unmarked
C25_Witness ==
  /\ page = SettingsPage
  /\ query[ListKey].isInvalidated
  /\ \A k \in {HealthKey, GpuKey} :
       query[k].data.loaded /\ ~query[k].isInvalidated

====
